---- MODULE Spec2Model ----
(***************************************************************************)
(* Baby-tracker heatmap: the aggregator (Heatmap.calculateAllHeatmaps),    *)
(* the segmenter (Heatmap.findIntensityRuns) and the recalculation         *)
(* pipeline of the App module, modelled from src/src/js/parser.js.         *)
(*                                                                         *)
(* A JavaScript Date is modelled as an integer count of seconds of local   *)
(* wall-clock time: day * 86400 + hours * 3600 + minutes * 60 + seconds,   *)
(* where day is the serial number of the calendar date.  A number k / D is *)
(* modelled as the exact fraction [num |-> k, den |-> D]; the doubles the  *)
(* program computes order the same way whenever D is no multiple of 50     *)
(* (only then can a difference of two values equal the threshold 0.02).    *)
(***************************************************************************)
EXTENDS Integers, Sequences, FiniteSets, TLC

VARIABLES state, ui, pending, agg, seg, ingest, draw

vars == <<state, ui, pending, agg, seg, ingest, draw>>

\* null, where the program holds an object or null
NULL == [null |-> TRUE]

\* null, where the program holds a Date or null
NULL_DATE == -1

(***************************************************************************)
(* Program constants                                                       *)
(***************************************************************************)
MINUTES_PER_DAY == 1440

HALF_WINDOW == 7

SECONDS_PER_DAY == 24 * 3600

durationTypes == <<"sleep", "nursing", "pumping">>

instantTypes == <<"bottle", "diaper">>

typeOrder == durationTypes \o instantTypes

Kinds == {typeOrder[j] : j \in 1..Len(typeOrder)}

IsDurationType(type) == \E j \in 1..Len(durationTypes) : durationTypes[j] = type

Minutes == 0..(MINUTES_PER_DAY - 1)

(***************************************************************************)
(* Numbers: exact fractions in place of doubles                            *)
(***************************************************************************)
Frac(n, d) == [num |-> n, den |-> d]

FracLE(a, b) == a.num * b.den <= b.num * a.den

FracLT(a, b) == a.num * b.den < b.num * a.den

FracEq(a, b) == a.num * b.den = b.num * a.den

Abs(x) == IF x < 0 THEN -x ELSE x

\* Math.abs(a - b)
FracAbsDiff(a, b) == Frac(Abs(a.num * b.den - b.num * a.den), a.den * b.den)

\* Math.min(1, x)
MathMin1(x) == IF FracLT(Frac(1, 1), x) THEN Frac(1, 1) ELSE x

\* JavaScript's % : the remainder takes the sign of the dividend
jsRem(a, n) == IF a >= 0 THEN a % n ELSE -((-a) % n)

(***************************************************************************)
(* Dates                                                                   *)
(***************************************************************************)
\* new Date(year, month, day, hours, minutes), the calendar date as a serial
MakeDate(day, hours, minutes) == day * SECONDS_PER_DAY + hours * 3600 + minutes * 60

\* date.getHours() * 60 + date.getMinutes()
timeToMinutes(date) == ((date % SECONDS_PER_DAY) \div 3600) * 60
                       + ((date % 3600) \div 60)

\* a key that keeps the time of day
getDateStringWithTime(date) == date

\* the YYYY-MM-DD key of a Date: equal exactly for equal calendar dates
getDateString(date) == date \div SECONDS_PER_DAY

(***************************************************************************)
(* Aggregator                                                              *)
(***************************************************************************)
emptyMinuteDays == [m \in Minutes |-> {}]

markMinuteRangeOffByOne(minuteDays, startMinute, durationMinutes, dateStr) ==
  LET endMinute == startMinute + durationMinutes
  IN IF endMinute <= MINUTES_PER_DAY
     THEN [m \in Minutes |->
             IF m >= startMinute /\ m < endMinute
             THEN minuteDays[m] \cup {dateStr} ELSE minuteDays[m]]
     ELSE LET wrappedEnd == endMinute % MINUTES_PER_DAY
          IN [m \in Minutes |->
                IF (m >= startMinute /\ m < MINUTES_PER_DAY) \/ (m >= 0 /\ m <= wrappedEnd)
                THEN minuteDays[m] \cup {dateStr} ELSE minuteDays[m]]

\* a marking that files the minutes after midnight under the following date
markMinuteRangeNextDate(minuteDays, startMinute, durationMinutes, dateStr) ==
  LET endMinute == startMinute + durationMinutes
  IN IF endMinute <= MINUTES_PER_DAY
     THEN [m \in Minutes |->
             IF m >= startMinute /\ m < endMinute
             THEN minuteDays[m] \cup {dateStr} ELSE minuteDays[m]]
     ELSE LET wrappedEnd == endMinute % MINUTES_PER_DAY
          IN [m \in Minutes |->
                IF m >= startMinute /\ m < MINUTES_PER_DAY
                THEN minuteDays[m] \cup {dateStr}
                ELSE IF m >= 0 /\ m < wrappedEnd
                THEN minuteDays[m] \cup {dateStr + 1} ELSE minuteDays[m]]

markMinuteRange(minuteDays, startMinute, durationMinutes, dateStr) ==
  LET endMinute == startMinute + durationMinutes
  IN IF endMinute <= MINUTES_PER_DAY
     THEN \* for (m = startMinute; m < endMinute; m++) minuteDays[m].add(dateStr)
          [m \in Minutes |->
             IF m >= startMinute /\ m < endMinute
             THEN minuteDays[m] \cup {dateStr} ELSE minuteDays[m]]
     ELSE \* startMinute..end of day, then start of day..wrappedEnd
          LET wrappedEnd == endMinute % MINUTES_PER_DAY
          IN [m \in Minutes |->
                IF (m >= startMinute /\ m < MINUTES_PER_DAY) \/ (m >= 0 /\ m < wrappedEnd)
                THEN minuteDays[m] \cup {dateStr} ELSE minuteDays[m]]

\* the slots the window loop of calculateInstantHeatmap writes for one event
windowSlotsNoWrap(minute) ==
  {m \in (minute - HALF_WINDOW)..(minute + HALF_WINDOW) : m \in Minutes}

windowSlots(minute) ==
  {jsRem(jsRem(m, MINUTES_PER_DAY) + MINUTES_PER_DAY, MINUTES_PER_DAY) :
     m \in (minute - HALF_WINDOW)..(minute + HALF_WINDOW)}

markWindow(minuteDays, minute, dateStr) ==
  LET slots == windowSlots(minute)
  IN [m \in Minutes |-> IF m \in slots THEN minuteDays[m] \cup {dateStr} ELSE minuteDays[m]]

\* an iteration that skips a record whose date was already seen
durationStepOncePerDate(acc, activity) ==
  LET startMinute == timeToMinutes(activity.start)
      dateStr == getDateString(activity.start)
  IN IF dateStr \in acc.uniqueDays THEN acc
     ELSE [minuteDays |-> markMinuteRange(acc.minuteDays, startMinute,
                                          activity.durationMinutes, dateStr),
           uniqueDays |-> acc.uniqueDays \cup {dateStr}]

\* one iteration of the loop of calculateDurationHeatmap
durationStep(acc, activity) ==
  LET startMinute == timeToMinutes(activity.start)
      dateStr == getDateString(activity.start)
  IN [minuteDays |-> markMinuteRange(acc.minuteDays, startMinute,
                                     activity.durationMinutes, dateStr),
      uniqueDays |-> acc.uniqueDays \cup {dateStr}]

\* one iteration of the outer loop of calculateInstantHeatmap
instantStep(acc, activity) ==
  LET minute == timeToMinutes(activity.time)
      dateStr == getDateString(activity.time)
  IN [minuteDays |-> markWindow(acc.minuteDays, minute, dateStr),
      uniqueDays |-> acc.uniqueDays \cup {dateStr}]

emptyAcc == [minuteDays |-> emptyMinuteDays, uniqueDays |-> {}]

RECURSIVE durationLoop(_, _, _)
durationLoop(activities, i, acc) ==
  IF i > Len(activities) THEN acc
  ELSE durationLoop(activities, i + 1, durationStep(acc, activities[i]))

RECURSIVE instantLoop(_, _, _)
instantLoop(activities, i, acc) ==
  IF i > Len(activities) THEN acc
  ELSE instantLoop(activities, i + 1, instantStep(acc, activities[i]))

calculateDurationHeatmap(activities) ==
  LET r == durationLoop(activities, 1, emptyAcc)
  IN [minuteDays |-> r.minuteDays, uniqueDays |-> r.uniqueDays,
      totalCount |-> Len(activities)]

calculateInstantHeatmap(activities) ==
  LET r == instantLoop(activities, 1, emptyAcc)
  IN [minuteDays |-> r.minuteDays, uniqueDays |-> r.uniqueDays,
      totalCount |-> Len(activities)]

SetMin(S) == CHOOSE x \in S : \A y \in S : x <= y

SetMax(S) == CHOOSE x \in S : \A y \in S : x >= y

getDateRange(dateStrings) ==
  IF Cardinality(dateStrings) = 0 THEN NULL
  ELSE [start |-> SetMin(dateStrings), end |-> SetMax(dateStrings)]

\* days.size / totalDays for one slot, as calculateAllHeatmaps normalises it
intensityOf(days, totalDays) ==
  IF totalDays > 0 THEN MathMin1(Frac(Cardinality(days), totalDays)) ELSE Frac(0, 1)

\* a normalisation by each kind's own day count
withIntensitiesPerKind(heatmaps, totalDays) ==
  [type \in DOMAIN heatmaps |->
     [minuteDays |-> heatmaps[type].minuteDays,
      uniqueDays |-> heatmaps[type].uniqueDays,
      totalCount |-> heatmaps[type].totalCount,
      intensities |-> [m \in Minutes |->
                         intensityOf(heatmaps[type].minuteDays[m],
                                     Cardinality(heatmaps[type].uniqueDays))]]]

\* the second loop of calculateAllHeatmaps over the kinds that have an entry
withIntensities(heatmaps, totalDays) ==
  [type \in DOMAIN heatmaps |->
     [minuteDays |-> heatmaps[type].minuteDays,
      uniqueDays |-> heatmaps[type].uniqueDays,
      totalCount |-> heatmaps[type].totalCount,
      intensities |-> [m \in Minutes |->
                         intensityOf(heatmaps[type].minuteDays[m], totalDays)]]]

UnionOf(S) == UNION S

calculateAllHeatmaps(allActivities) ==
  LET present == {type \in Kinds : Len(allActivities[type]) > 0}
      heatmaps == [type \in present |->
                     IF IsDurationType(type)
                     THEN calculateDurationHeatmap(allActivities[type])
                     ELSE calculateInstantHeatmap(allActivities[type])]
      allUniqueDays == UnionOf({heatmaps[type].uniqueDays : type \in present})
      totalDays == Cardinality(allUniqueDays)
  IN [heatmaps |-> withIntensities(heatmaps, totalDays),
      totalDays |-> totalDays,
      allUniqueDays |-> allUniqueDays,
      dateRange |-> getDateRange(allUniqueDays)]

(***************************************************************************)
(* Segmenter                                                               *)
(***************************************************************************)
\* the default of findIntensityRuns' threshold parameter, 0.02
DEFAULT_THRESHOLD == Frac(2, 100)

\* Math.abs(currentIntensity - runIntensity) > threshold
changedSignificantly(currentIntensity, runIntensity, threshold) ==
  FracLT(threshold, FracAbsDiff(currentIntensity, runIntensity))

\* a test that lets a zero through
isNotNegative(x) == FracLE(Frac(0, 1), x)

\* runIntensity > 0
isPositive(x) == FracLT(Frac(0, 1), x)

run(startMinute, endMinute, intensity) ==
  [startMinute |-> startMinute, endMinute |-> endMinute, intensity |-> intensity]

\* a last run that ends at the last index
lastRunAtLastIndex(runStart, runIntensity) == run(runStart, MINUTES_PER_DAY - 1, runIntensity)

\* the run pushed after the loop: its end is MINUTES_PER_DAY
lastRun(runStart, runIntensity) == run(runStart, MINUTES_PER_DAY, runIntensity)

\* The minutes at which the loop of findIntensityRuns can close a run.  Under a
\* threshold of 0 or more a run is closed at a minute whose sample differs from the
\* run's first sample, and the first such minute after the run's start has a sample
\* that differs from the one before it; under a negative threshold every minute
\* closes a run.
closingMinutes(intensities, threshold) ==
  LET length == Cardinality(DOMAIN intensities)
  IN IF FracLT(threshold, Frac(0, 1)) THEN 1..(length - 1)
     ELSE {m \in 1..(length - 1) : intensities[m] # intensities[m - 1]}

\* The loop of findIntensityRuns from the start of one run: the iterations that leave
\* runStart and runIntensity alone are taken together, up to the first m whose
\* intensity differs from runIntensity by more than the threshold.
RECURSIVE scanRuns(_, _, _, _, _)
scanRuns(intensities, threshold, closing, runStart, runs) ==
  LET runIntensity == intensities[runStart]
      breaks == {m \in closing :
                   /\ m > runStart
                   /\ changedSignificantly(intensities[m], runIntensity, threshold)}
  IN IF breaks = {}
     THEN IF isPositive(runIntensity)
          THEN Append(runs, lastRun(runStart, runIntensity))
          ELSE runs
     ELSE LET m == SetMin(breaks)
          IN scanRuns(intensities, threshold, closing, m,
                      IF isPositive(runIntensity)
                      THEN Append(runs, run(runStart, m, runIntensity))
                      ELSE runs)

\* a segmenter that joins the run ending at the end of the day with the run starting
\* at its beginning
findIntensityRunsAroundMidnight(intensities, threshold) ==
  LET runs == IF Cardinality(DOMAIN intensities) = 0 THEN <<>>
              ELSE scanRuns(intensities, threshold,
                            closingMinutes(intensities, threshold), 0, <<>>)
      n == Len(runs)
  IN IF n >= 2 /\ runs[1].startMinute = 0 /\ runs[n].endMinute = MINUTES_PER_DAY
     THEN SubSeq(runs, 2, n - 1)
          \o <<run(runs[n].startMinute, MINUTES_PER_DAY + runs[1].endMinute,
                   runs[n].intensity)>>
     ELSE runs

findIntensityRuns(intensities, threshold) ==
  IF Cardinality(DOMAIN intensities) = 0 THEN <<>>
  ELSE scanRuns(intensities, threshold, closingMinutes(intensities, threshold), 0, <<>>)

(***************************************************************************)
(* Parser: file type detection and row filtering.  A file name is the set  *)
(* of keywords its lower-cased text includes; a row holds what             *)
(* parseDateTime and parseInt return for it (NULL_DATE: unparsable time).  *)
(***************************************************************************)
NO_TYPE == "null"

detectActivityType(filename) ==
  IF "sleep" \in filename THEN "sleep"
  ELSE IF "nursing" \in filename THEN "nursing"
  ELSE IF "pump" \in filename /\ "expressed" \notin filename THEN "pumping"
  ELSE IF "expressed" \in filename THEN "bottle"
  ELSE IF "diaper" \in filename THEN "diaper"
  ELSE NO_TYPE

\* parseInt of a cell: a cell is <<n>> when its text starts with the integer n, and
\* <<>> when it is missing or starts with no number, for which parseInt gives NaN
parseIntIsNaN(cell) == Len(cell) = 0

parseInt(cell) == cell[1]

\* a row filter that asks for a number only
parseDurationRowsAnyNumber(type, rows) ==
  LET kept == SelectSeq(rows, LAMBDA row :
                ~(row.Time = NULL_DATE \/ parseIntIsNaN(row.Duration)))
  IN [j \in 1..Len(kept) |->
        [type |-> type, start |-> kept[j].Time,
         durationMinutes |-> parseInt(kept[j].Duration)]]

\* parseSleep, parseNursing, parsePumping: rows without a time or a positive duration
\* are skipped (Duration: the cell of the kind's duration column)
parseDurationRows(type, rows) ==
  LET kept == SelectSeq(rows, LAMBDA row :
                ~(\/ row.Time = NULL_DATE
                  \/ parseIntIsNaN(row.Duration)
                  \/ parseInt(row.Duration) <= 0))
  IN [j \in 1..Len(kept) |->
        [type |-> type, start |-> kept[j].Time,
         durationMinutes |-> parseInt(kept[j].Duration)]]

\* parseBottle, parseDiaper: rows without a time are skipped
parseInstantRows(type, rows) ==
  LET kept == SelectSeq(rows, LAMBDA row : ~(row.Time = NULL_DATE))
  IN [j \in 1..Len(kept) |-> [type |-> type, time |-> kept[j].Time]]

\* parseFile: the promise's outcome
parseFile(file) ==
  LET activityType == detectActivityType(file.name)
  IN IF activityType = NO_TYPE
     THEN [rejected |-> TRUE]
     ELSE LET activities == IF IsDurationType(activityType)
                            THEN parseDurationRows(activityType, file.rows)
                            ELSE parseInstantRows(activityType, file.rows)
          IN [rejected |-> FALSE, type |-> activityType, activities |-> activities,
              filename |-> file.name, rowCount |-> Len(file.rows),
              parsedCount |-> Len(activities)]

\* a parseFiles that settles every promise and keeps the fulfilled ones
parseFilesSettled(files) ==
  LET results == [j \in 1..Len(files) |-> parseFile(files[j])]
  IN [rejected |-> FALSE, results |-> SelectSeq(results, LAMBDA result : ~result.rejected)]

\* parseFiles: Promise.all over the files
parseFiles(files) ==
  LET results == [j \in 1..Len(files) |-> parseFile(files[j])]
  IN IF \E j \in 1..Len(files) : results[j].rejected
     THEN [rejected |-> TRUE, results |-> <<>>]
     ELSE [rejected |-> FALSE, results |-> results]

\* parseInt(text, 10) of a run of decimal digits
RECURSIVE parseDigits(_)
parseDigits(digits) ==
  IF Len(digits) = 0 THEN 0
  ELSE 10 * parseDigits(SubSeq(digits, 1, Len(digits) - 1)) + digits[Len(digits)]

\* parseDateTime from its regular expression's match on: match holds the groups of
\* M/D/YY, HH:MM as digit runs; the result is the arguments of new Date(year, month,
\* day, hours, minutes), or null
parseDateTime(match) ==
  LET month == parseDigits(match.month) - 1
      day == parseDigits(match.day)
      parsedYear == parseDigits(match.year)
      hours == parseDigits(match.hours)
      minutes == parseDigits(match.minutes)
      year == IF parsedYear < 100
              THEN IF parsedYear < 50 THEN 2000 + parsedYear ELSE 1900 + parsedYear
              ELSE parsedYear
  IN IF month < 0 \/ month > 11 THEN NULL
     ELSE IF day < 1 \/ day > 31 THEN NULL
     ELSE IF hours < 0 \/ hours > 23 THEN NULL
     ELSE IF minutes < 0 \/ minutes > 59 THEN NULL
     ELSE [year |-> year, month |-> month, day |-> day, hours |-> hours,
           minutes |-> minutes]

\* the functions the Parser module returns as its public API
ParserApi == {"detectActivityType", "parseDateTime", "parseFile", "parseFiles"}

\* Parser.parseCSVText(text, filename) as its callers use it: a call of a property the
\* module does not have throws a TypeError
parseCSVText(entry) ==
  IF "parseCSVText" \in ParserApi THEN parseFile(entry) ELSE [rejected |-> TRUE]

(***************************************************************************)
(* App: state, and the handlers as functions of the world w = [state, ui]  *)
(***************************************************************************)
DEFAULT_WINDOW_DAYS == 30

EXAMPLE_FILES == {"diaper.csv", "expressed.csv", "nursing.csv", "pump.csv", "sleep.csv"}

\* EXAMPLE_DATA_BASE_URL + filename
ExampleUrls == {<<"EXAMPLE_DATA_BASE_URL", filename>> : filename \in EXAMPLE_FILES}

EmptyActivities == [type \in Kinds |-> <<>>]

AllVisible == [type \in Kinds |-> TRUE]

NoFilter == [start |-> NULL_DATE, end |-> NULL_DATE]

NothingDrawn == [type \in {} |-> <<>>]

StateInit ==
  [activities |-> EmptyActivities, heatmapData |-> NULL, visibility |-> AllVisible,
   loadedFiles |-> <<>>, dateFilter |-> NoFilter]

\* no alert() was shown
NO_ALERT == ""

\* the page: the loading indicator, the data summary, the section visibility, the
\* bars drawn in the heatmap container, the two date inputs' values, whether the file
\* input holds a selection, whether the last handler raised, and the alert it showed
UiInit ==
  [loading |-> FALSE, dataSummary |-> "no-data", sections |-> FALSE,
   drawn |-> NothingDrawn, dateStart |-> NULL_DATE, dateEnd |-> NULL_DATE,
   fileInput |-> FALSE, raised |-> FALSE, alerted |-> NO_ALERT]

\* formatDateForInput: the YYYY-MM-DD of a Date; '' is NULL_DATE
formatDateForInput(date) == date \div SECONDS_PER_DAY

\* new Date(value + 'T00:00:00') and new Date(value + 'T23:59:59')
startOfDay(value) == value * SECONDS_PER_DAY

endOfDay(value) == value * SECONDS_PER_DAY + 23 * 3600 + 59 * 60 + 59

\* filter callbacks that treat the end bound as exclusive
passesFilterBeforeEnd(activityDate, start, end) ==
  IF start # NULL_DATE /\ activityDate < start THEN FALSE
  ELSE IF end # NULL_DATE /\ activityDate >= end THEN FALSE
  ELSE TRUE

\* the filter callbacks of getFilteredActivities
passesFilter(activityDate, start, end) ==
  IF start # NULL_DATE /\ activityDate < start THEN FALSE
  ELSE IF end # NULL_DATE /\ activityDate > end THEN FALSE
  ELSE TRUE

getFilteredActivities(st) ==
  LET start == st.dateFilter.start
      end == st.dateFilter.end
  IN IF start = NULL_DATE /\ end = NULL_DATE
     THEN st.activities
     ELSE [type \in Kinds |->
             IF IsDurationType(type)
             THEN SelectSeq(st.activities[type],
                            LAMBDA activity : passesFilter(activity.start, start, end))
             ELSE SelectSeq(st.activities[type],
                            LAMBDA activity : passesFilter(activity.time, start, end))]

\* getAllActivityDates, as the set of the timestamps it lists
getAllActivityDates(st) ==
  UNION {{IF IsDurationType(type) THEN st.activities[type][j].start
          ELSE st.activities[type][j].time : j \in 1..Len(st.activities[type])} :
         type \in Kinds}

\* a summary that trusts heatmapData alone
updateDataSummaryUnguarded(heatmapData) ==
  LET hasData == ~(heatmapData = NULL)
  IN IF hasData
     THEN IF heatmapData.dateRange = NULL THEN "TypeError" ELSE "has-data"
     ELSE "no-data"

\* updateDataSummary: the summary shown, or the TypeError of reading dateRange.start
\* of null
updateDataSummary(heatmapData) ==
  LET hasData == IF heatmapData = NULL THEN FALSE ELSE heatmapData.totalDays > 0
  IN IF hasData
     THEN IF heatmapData.dateRange = NULL THEN "TypeError" ELSE "has-data"
     ELSE "no-data"

\* width - margin.left - margin.right, in pixels
chartWidth == 700 - 50 - 40

\* a length of n minutes in pixels: n * pixelsPerMinute, with pixelsPerMinute =
\* chartWidth / 60
pixels(n) == Frac(n * chartWidth, 60)

\* Math.max(1, x)
MathMax1(x) == IF FracLT(x, Frac(1, 1)) THEN Frac(1, 1) ELSE x

\* the rect render appends for one hour row: y is set from hour, x from segmentStart
\* and width from segmentEnd - segmentStart
rect(hour, segmentStart, segmentEnd) ==
  [hour |-> hour, x |-> pixels(segmentStart),
   width |-> MathMax1(pixels(segmentEnd - segmentStart))]

\* bars whose last hour and last minute are taken from endMinute itself
barsOfEndExclusive(segment) ==
  LET startHour == segment.startMinute \div 60
      startMinuteInHour == segment.startMinute % 60
      endHour == segment.endMinute \div 60
      endMinuteInHour == segment.endMinute % 60
  IN IF startHour = endHour
     THEN <<rect(startHour, startMinuteInHour, endMinuteInHour)>>
     ELSE [k \in 1..(endHour - startHour + 1) |->
             LET hour == startHour + k - 1
             IN IF hour = startHour THEN rect(hour, startMinuteInHour, 60)
                ELSE IF hour = endHour THEN rect(hour, 0, endMinuteInHour)
                ELSE rect(hour, 0, 60)]

\* the body of render's loop over the runs: the rects appended for one run, in order
barsOf(segment) ==
  LET startHour == segment.startMinute \div 60
      startMinuteInHour == segment.startMinute % 60
      endHour == (segment.endMinute - 1) \div 60
      endMinuteInHour == ((segment.endMinute - 1) % 60) + 1
  IN IF startHour = endHour
     THEN <<rect(startHour, startMinuteInHour, endMinuteInHour)>>
     ELSE [k \in 1..(endHour - startHour + 1) |->
             LET hour == startHour + k - 1
             IN IF hour = startHour THEN rect(hour, startMinuteInHour, 60)
                ELSE IF hour = endHour THEN rect(hour, 0, endMinuteInHour)
                ELSE rect(hour, 0, 60)]

\* Heatmap.render: the runs drawn for each visible kind that has an entry
render(heatmapData, visibility) ==
  [type \in {t \in DOMAIN heatmapData.heatmaps : visibility[t]} |->
     findIntensityRuns(heatmapData.heatmaps[type].intensities, DEFAULT_THRESHOLD)]

renderHeatmap(w) ==
  IF w.state.heatmapData = NULL THEN w
  ELSE [w EXCEPT !.ui.drawn = render(w.state.heatmapData, w.state.visibility)]

\* updateTooltipContent: the visible kinds listed for a minute, those of non-zero
\* intensity
tooltipActivities(st, minute) ==
  {type \in {t \in DOMAIN st.heatmapData.heatmaps : st.visibility[t]} :
     isPositive(st.heatmapData.heatmaps[type].intensities[minute])}

\* updateDataSummary(); updateToggleCounts(); renderHeatmap(): the steps after a raise
\* are not run (updateToggleCounts writes the toggle labels only)
updateDisplay(w) ==
  LET summary == updateDataSummary(w.state.heatmapData)
  IN IF summary = "TypeError"
     THEN [w EXCEPT !.ui.raised = TRUE]
     ELSE renderHeatmap([w EXCEPT !.ui.dataSummary = summary])

calculateFiltered(w) ==
  [w EXCEPT !.state.heatmapData = calculateAllHeatmaps(getFilteredActivities(w.state))]

recalculateHeatmap(w) == updateDisplay(calculateFiltered(w))

initializeDateFilter(w, today) ==
  LET allDates == getAllActivityDates(w.state)
  IN IF Cardinality(allDates) = 0 THEN w
     ELSE LET minDate == SetMin(allDates)
              maxDate == SetMax(allDates)
              thirtyDaysAgo == today - DEFAULT_WINDOW_DAYS * SECONDS_PER_DAY
              filterStart == IF thirtyDaysAgo > minDate THEN thirtyDaysAgo ELSE minDate
              filterEnd == IF today < maxDate THEN today ELSE maxDate
          IN [w EXCEPT !.state.dateFilter = [start |-> filterStart, end |-> filterEnd],
                       !.ui.dateStart = formatDateForInput(filterStart),
                       !.ui.dateEnd = formatDateForInput(filterEnd)]

setDefaultDateFilter(w, today) ==
  LET thirtyDaysAgo == today - DEFAULT_WINDOW_DAYS * SECONDS_PER_DAY
  IN [w EXCEPT !.state.dateFilter = [start |-> thirtyDaysAgo, end |-> today],
               !.ui.dateStart = formatDateForInput(thirtyDaysAgo),
               !.ui.dateEnd = formatDateForInput(today)]

\* the merge loop of handleFileUpload over the parse results
RECURSIVE mergeResults(_, _, _)
mergeResults(st, results, j) ==
  IF j > Len(results) THEN st
  ELSE LET result == results[j]
       IN mergeResults(
            IF Len(result.activities) > 0
            THEN [st EXCEPT !.activities[result.type] = @ \o result.activities,
                            !.loadedFiles = Append(@, [name |-> result.filename,
                                                       type |-> result.type,
                                                       count |-> result.parsedCount])]
            ELSE st,
            results, j + 1)

\* file.name.toLowerCase().endsWith('.zip')
isZip(file) == "zip" \in file.name

\* extractCsvsFromZips: the entries of the archives whose path ends with .csv, in
\* order
RECURSIVE extractCsvsFromZips(_)
extractCsvsFromZips(zipFiles) ==
  IF Len(zipFiles) = 0 THEN <<>>
  ELSE SelectSeq(Head(zipFiles).entries, LAMBDA zipEntry : "csv" \in zipEntry.name)
       \o extractCsvsFromZips(Tail(zipFiles))

\* the loop of handleFileUpload over the extracted CSV texts: an entry whose
\* Parser.parseCSVText call throws is skipped
RECURSIVE mergeExtracted(_, _, _)
mergeExtracted(st, extractedCsvs, j) ==
  IF j > Len(extractedCsvs) THEN st
  ELSE LET result == parseCSVText(extractedCsvs[j])
       IN mergeExtracted(IF result.rejected THEN st ELSE mergeResults(st, <<result>>, 1),
                         extractedCsvs, j + 1)

\* handleFileUpload from the resolution of its awaits (extractCsvsFromZips,
\* Parser.parseFiles) to its end
finishFileUpload(w, files, today) ==
  LET zipFiles == SelectSeq(files, isZip)
      csvFiles == SelectSeq(files, LAMBDA file : ~isZip(file))
      extractedCsvs == extractCsvsFromZips(zipFiles)
      parsed == IF Len(csvFiles) > 0 THEN parseFiles(csvFiles)
                ELSE [rejected |-> FALSE, results |-> <<>>]
      started == [w EXCEPT !.ui.raised = FALSE, !.ui.alerted = NO_ALERT]
      done ==
        IF parsed.rejected
        THEN [started EXCEPT !.ui.alerted = "Error loading files"]
        ELSE LET merged == [started EXCEPT !.state =
                              mergeExtracted(mergeResults(w.state, parsed.results, 1),
                                             extractedCsvs, 1)]
                 shown == updateDisplay(calculateFiltered(initializeDateFilter(merged, today)))
             IN IF shown.ui.raised
                THEN [shown EXCEPT !.ui.alerted = "Error loading files"]
                ELSE [shown EXCEPT !.ui.sections = TRUE]
  IN [done EXCEPT !.ui.loading = FALSE, !.ui.fileInput = FALSE]

\* handleLoadExample from the settling of its fetches: a failed fetch throws, and with
\* every file fetched the first Parser.parseCSVText call throws, Parser having no such
\* function; either way the catch alerts and the state is left as it was
finishLoadExample(w, fetched) ==
  LET started == [w EXCEPT !.ui.raised = FALSE, !.ui.alerted = NO_ALERT]
      done == IF ~fetched
              THEN \* throw new Error(`Failed to fetch ${filename}`)
                   [started EXCEPT !.ui.alerted = "Error loading example data"]
              ELSE \* TypeError: Parser.parseCSVText is not a function
                   [started EXCEPT !.ui.alerted = "Error loading example data"]
  IN [done EXCEPT !.ui.loading = FALSE]

\* a clear that leaves the date filter and the date inputs as they were
handleClearKeepingDates(w) ==
  [state |-> [w.state EXCEPT !.activities = EmptyActivities, !.heatmapData = NULL,
                             !.loadedFiles = <<>>, !.visibility = AllVisible],
   ui |-> [w.ui EXCEPT !.dataSummary = updateDataSummary(NULL), !.sections = FALSE,
                       !.drawn = NothingDrawn, !.raised = FALSE, !.alerted = NO_ALERT]]

handleClear(w) ==
  [state |-> [w.state EXCEPT !.activities = EmptyActivities, !.heatmapData = NULL,
                             !.loadedFiles = <<>>, !.visibility = AllVisible,
                             !.dateFilter = NoFilter],
   ui |-> [w.ui EXCEPT !.dateStart = NULL_DATE, !.dateEnd = NULL_DATE,
                       !.dataSummary = updateDataSummary(NULL), !.sections = FALSE,
                       !.drawn = NothingDrawn, !.raised = FALSE, !.alerted = NO_ALERT]]

handleToggleChange(w, activityType, checked) ==
  renderHeatmap([w EXCEPT !.state.visibility[activityType] = checked,
                          !.ui.raised = FALSE, !.ui.alerted = NO_ALERT])

\* a change handler that stores the bounds and leaves the heatmap as it was
handleDateFilterChangeStoreOnly(w) ==
  LET startValue == w.ui.dateStart
      endValue == w.ui.dateEnd
  IN [w EXCEPT !.state.dateFilter =
                  [start |-> IF startValue # NULL_DATE THEN startOfDay(startValue)
                             ELSE NULL_DATE,
                   end |-> IF endValue # NULL_DATE THEN endOfDay(endValue)
                           ELSE NULL_DATE],
               !.ui.raised = FALSE, !.ui.alerted = NO_ALERT]

handleDateFilterChange(w) ==
  LET startValue == w.ui.dateStart
      endValue == w.ui.dateEnd
  IN recalculateHeatmap(
       [w EXCEPT !.state.dateFilter =
                    [start |-> IF startValue # NULL_DATE THEN startOfDay(startValue)
                               ELSE NULL_DATE,
                     end |-> IF endValue # NULL_DATE THEN endOfDay(endValue)
                             ELSE NULL_DATE],
                 !.ui.raised = FALSE, !.ui.alerted = NO_ALERT])

handleResetDates(w, today) ==
  recalculateHeatmap(setDefaultDateFilter(
    [w EXCEPT !.ui.raised = FALSE, !.ui.alerted = NO_ALERT], today))

updateCurrentTimeIndicator(w) ==
  IF w.state.heatmapData = NULL THEN w ELSE renderHeatmap(w)

(***************************************************************************)
(* SpecAgg: calculateAllHeatmaps run step by step on a bounded dataset.    *)
(* One step is one iteration of a loop of the code: AggMark one record of  *)
(* calculateDurationHeatmap / calculateInstantHeatmap, AggSkip and         *)
(* AggStore one kind of the loops over durationTypes and instantTypes,     *)
(* AggNormalize the intensity loop and the return.                         *)
(***************************************************************************)
MaxRecords == 2

Interval(type, day, minute, duration) ==
  [type |-> type, start |-> MakeDate(day, minute \div 60, minute % 60),
   durationMinutes |-> duration]

Instant(type, day, minute) ==
  [type |-> type, time |-> MakeDate(day, minute \div 60, minute % 60)]

\* the records a dataset is drawn from: plain, midnight-crossing, overlapping and
\* day-long intervals, events at both ends of the day, on two calendar dates
RecordPool ==
  { Interval("sleep", 1, 500, 60), Interval("sleep", 1, 520, 1),
    Interval("sleep", 1, 1200, 300), Interval("sleep", 2, 1439, 1441),
    Interval("sleep", 2, 500, 60),
    Interval("nursing", 2, 500, 20), Interval("pumping", 1, 0, 1440),
    Instant("bottle", 1, 0), Instant("bottle", 1, 5), Instant("diaper", 2, 1439) }

ListsOver(pool, n) == UNION {[1..j -> pool] : j \in 0..n}

ByKind(list, type) == SelectSeq(list, LAMBDA r : r.type = type)

Datasets == {[type \in Kinds |-> ByKind(list, type)] : list \in ListsOver(RecordPool, MaxRecords)}

NoHeatmaps == [type \in {} |-> NULL]

AggOff == [pc |-> "off"]

StateOff == [pc |-> "off"]

AggInit ==
  /\ agg \in {[pc |-> "loop", input |-> ds, t |-> 1, i |-> 1, acc |-> emptyAcc,
               heatmaps |-> NoHeatmaps, allUniqueDays |-> {}, out |-> NULL,
               runs |-> NothingDrawn] :
                ds \in Datasets}
  /\ state = StateOff /\ ui = StateOff /\ pending = StateOff /\ seg = StateOff
  /\ ingest = StateOff
  /\ draw = StateOff

AggType == typeOrder[agg.t]

AggList == agg.input[AggType]

AggInLoop == agg.pc = "loop" /\ agg.t <= Len(typeOrder)

\* if (allActivities[type] && allActivities[type].length > 0) fails
AggSkip ==
  /\ AggInLoop /\ Len(AggList) = 0
  /\ agg' = [agg EXCEPT !.t = agg.t + 1]
  /\ UNCHANGED <<state, ui, pending, seg, ingest, draw>>

\* one record of the kind's list
AggMark ==
  /\ AggInLoop /\ Len(AggList) > 0 /\ agg.i <= Len(AggList)
  /\ agg' = [agg EXCEPT !.i = agg.i + 1,
                        !.acc = IF IsDurationType(AggType)
                                THEN durationStep(agg.acc, AggList[agg.i])
                                ELSE instantStep(agg.acc, AggList[agg.i])]
  /\ UNCHANGED <<state, ui, pending, seg, ingest, draw>>

\* heatmaps[type] = result; result.uniqueDays.forEach(d => allUniqueDays.add(d))
AggStore ==
  /\ AggInLoop /\ Len(AggList) > 0 /\ agg.i > Len(AggList)
  /\ agg' = [agg EXCEPT !.t = agg.t + 1, !.i = 1, !.acc = emptyAcc,
                        !.heatmaps = (AggType :> [minuteDays |-> agg.acc.minuteDays,
                                                  uniqueDays |-> agg.acc.uniqueDays,
                                                  totalCount |-> Len(AggList)])
                                     @@ agg.heatmaps,
                        !.allUniqueDays = agg.allUniqueDays \cup agg.acc.uniqueDays]
  /\ UNCHANGED <<state, ui, pending, seg, ingest, draw>>

AggNormalize ==
  /\ agg.pc = "loop" /\ agg.t > Len(typeOrder)
  /\ LET totalDays == Cardinality(agg.allUniqueDays)
     IN agg' = [agg EXCEPT !.pc = "done",
                           !.out = [heatmaps |-> withIntensities(agg.heatmaps, totalDays),
                                    totalDays |-> totalDays,
                                    allUniqueDays |-> agg.allUniqueDays,
                                    dateRange |-> getDateRange(agg.allUniqueDays)]]
  /\ UNCHANGED <<state, ui, pending, seg, ingest, draw>>

\* the bars loop of render over the returned heatmaps, every kind visible
AggRender ==
  /\ agg.pc = "done"
  /\ agg' = [agg EXCEPT !.pc = "drawn", !.runs = render(agg.out, AllVisible)]
  /\ UNCHANGED <<state, ui, pending, seg, ingest, draw>>

AggNext == AggSkip \/ AggMark \/ AggStore \/ AggNormalize \/ AggRender

SpecAgg == AggInit /\ [][AggNext]_vars

\* the loops, run to their end, return what calculateAllHeatmaps returns
AggReturnsCalculateAllHeatmaps ==
  agg.pc = "done" => agg.out = calculateAllHeatmaps(agg.input)

(***************************************************************************)
(* Claims about the aggregator (checked under SpecAgg)                     *)
(***************************************************************************)
\* the calendar date and the minute of day of a record's start or occurrence
InstantOf(r) == IF IsDurationType(r.type) THEN r.start ELSE r.time

CalendarDate(r) == InstantOf(r) \div SECONDS_PER_DAY

MinuteOfDay(r) == (InstantOf(r) % SECONDS_PER_DAY) \div 60

RecordsOf(input, type) == {input[type][j] : j \in 1..Len(input[type])}

AllRecords(input) == UNION {RecordsOf(input, type) : type \in Kinds}

\* [s, s+d), or [s, 1440) with [0, (s+d) mod 1440) when s + d > 1440
IntervalSlots(s, d) ==
  IF s + d <= MINUTES_PER_DAY
  THEN {m \in Minutes : s <= m /\ m < s + d}
  ELSE {m \in Minutes : s <= m} \cup {m \in Minutes : m < (s + d) % MINUTES_PER_DAY}

\* {(t + o) mod 1440 : o in -7..7}
EventSlots(t) == {(t + o) % MINUTES_PER_DAY : o \in (0 - HALF_WINDOW)..HALF_WINDOW}

\* the slots one record is claimed to mark
ClaimedSlots(r) ==
  IF IsDurationType(r.type) THEN IntervalSlots(MinuteOfDay(r), r.durationMinutes)
  ELSE EventSlots(MinuteOfDay(r))

AggDone == agg.pc = "done"

AggDrawn == agg.pc = "drawn"

\* C1: calculateAllHeatmaps uses one global denominator D, the number of distinct
\* calendar dates of the start/occurrence instants of all records of all five kinds
\* together, and every kind that has records reports, at every minute m,
\* intensity[m] = |day-set[m]| / D.
C1_GlobalDenominator ==
  AggDone =>
    LET D == Cardinality({CalendarDate(r) : r \in AllRecords(agg.input)})
    IN /\ agg.out.totalDays = D
       /\ \A type \in Kinds :
            Len(agg.input[type]) > 0 =>
              /\ type \in DOMAIN agg.out.heatmaps
              /\ \A m \in Minutes :
                   agg.out.heatmaps[type].intensities[m]
                     = Frac(Cardinality(agg.out.heatmaps[type].minuteDays[m]), D)

\* C1 witness: two distinct days in total, the second only from nursing, sleep covers
\* minute 500 on one of them and its intensity there is 1/2
C1_Witness ==
  /\ AggDone
  /\ agg.out.totalDays = 2
  /\ agg.input["sleep"] = <<Interval("sleep", 1, 500, 60)>>
  /\ agg.input["nursing"] = <<Interval("nursing", 2, 500, 20)>>
  /\ agg.out.heatmaps["sleep"].intensities[500] = Frac(1, 2)

C2_MarkMinuteRange ==
  [][(AggMark /\ IsDurationType(AggType)) =>
       LET r == AggList[agg.i]
           k == CalendarDate(r)
           slots == IntervalSlots(MinuteOfDay(r), r.durationMinutes)
       IN \A m \in Minutes :
            agg'.acc.minuteDays[m] = IF m \in slots THEN agg.acc.minuteDays[m] \cup {k}
                                     ELSE agg.acc.minuteDays[m]]_vars

\* C2 witness: after a record of date 2, the record (start 1200, duration 300) of date 1
\* has marked [1200, 1440) and [0, 60) and nothing between
C2_Witness ==
  /\ agg.pc = "loop" /\ agg.t = 1 /\ agg.i = 3
  /\ agg.input["sleep"] = <<Interval("sleep", 2, 500, 60), Interval("sleep", 1, 1200, 300)>>
  /\ agg.acc.minuteDays[1200] = {1} /\ agg.acc.minuteDays[1439] = {1}
  /\ agg.acc.minuteDays[0] = {1} /\ agg.acc.minuteDays[59] = {1}
  /\ agg.acc.minuteDays[60] = {} /\ agg.acc.minuteDays[1199] = {}
  /\ agg.acc.minuteDays[500] = {2}

\* a record covers minute m modulo 1440: (m - startMinute) mod 1440 < durationMinutes
Covers(r, m) == ((m - MinuteOfDay(r)) % MINUTES_PER_DAY) < r.durationMinutes

\* C3: for every positive duration, after aggregating a kind's records, date k is in
\* slot m if and only if some record of that kind starting on date k covers m modulo
\* 1440.
C3_DaySetIffCovered ==
  AggDone =>
    \A type \in DOMAIN agg.out.heatmaps :
      IsDurationType(type) =>
        \A m \in Minutes :
          agg.out.heatmaps[type].minuteDays[m]
            = {CalendarDate(r) : r \in {x \in RecordsOf(agg.input, type) : Covers(x, m)}}

\* the circular distance of two minutes of day
CircularDistance(a, b) ==
  LET x == (a - b) % MINUTES_PER_DAY
      y == (b - a) % MINUTES_PER_DAY
  IN IF x < y THEN x ELSE y

\* C4: for an instant record at minute t on date k, calculateInstantHeatmap adds k to
\* exactly the 15 slots {(t + o) mod 1440 : o in -7..7} and to no other slot; so date
\* k is in slot m iff some record of the kind on date k, among those processed, is
\* within 7 minutes of m on the 1440-minute circle.
C4_InstantWindow ==
  [][(AggMark /\ ~IsDurationType(AggType)) =>
       LET r == AggList[agg.i]
           k == CalendarDate(r)
           slots == EventSlots(MinuteOfDay(r))
           done == {AggList[j] : j \in 1..agg.i}
       IN /\ Cardinality(slots) = 2 * HALF_WINDOW + 1
          /\ \A m \in Minutes :
               /\ agg'.acc.minuteDays[m] = IF m \in slots
                                           THEN agg.acc.minuteDays[m] \cup {k}
                                           ELSE agg.acc.minuteDays[m]
               /\ agg'.acc.minuteDays[m]
                    = {CalendarDate(x) :
                         x \in {y \in done :
                                  CircularDistance(MinuteOfDay(y), m) <= HALF_WINDOW}}]_vars

\* C4 witness: the events at minute 0 of date 1 and minute 1439 of date 2 have marked
\* 1433..1439 with 0..7, and 1432..1439 with 0..6
C4_Witness ==
  /\ AggDone
  /\ agg.input["bottle"] = <<Instant("bottle", 1, 0)>>
  /\ agg.input["diaper"] = <<Instant("diaper", 2, 1439)>>
  /\ {m \in Minutes : 1 \in agg.out.heatmaps["bottle"].minuteDays[m]}
       = (1433..1439) \cup (0..7)
  /\ {m \in Minutes : 2 \in agg.out.heatmaps["diaper"].minuteDays[m]}
       = (1432..1439) \cup (0..6)

OrdersOf(list) ==
  {[j \in 1..Len(list) |-> list[p[j]]] :
     p \in {q \in [1..Len(list) -> 1..Len(list)] :
              \A a, b \in 1..Len(list) : a # b => q[a] # q[b]}}

Reorderings(input) ==
  {ds \in [Kinds -> UNION {OrdersOf(input[type]) : type \in Kinds}] :
     \A type \in Kinds : ds[type] \in OrdersOf(input[type])}

SameHeatmaps(a, b) ==
  /\ a.totalDays = b.totalDays
  /\ DOMAIN a.heatmaps = DOMAIN b.heatmaps
  /\ \A type \in DOMAIN a.heatmaps :
       a.heatmaps[type].intensities = b.heatmaps[type].intensities

\* C19: aggregation is pure and order-independent: calculateAllHeatmaps never changes
\* its input lists, returns the same totalDays and intensity arrays when invoked again
\* on the same input, and returns them for every permutation of the records inside each
\* kind's list.
C19_PureOrderIndependent ==
  /\ [][agg'.input = agg.input]_vars
  /\ [](AggDone =>
          /\ SameHeatmaps(calculateAllHeatmaps(agg.input), agg.out)
          /\ \A ds \in Reorderings(agg.input) :
               SameHeatmaps(calculateAllHeatmaps(ds), agg.out))

\* C19 witness: two different records of one kind, which have two orders, have been
\* aggregated
C19_Witness ==
  /\ AggDone
  /\ \E type \in Kinds :
       /\ Len(agg.input[type]) = 2
       /\ agg.input[type][1] # agg.input[type][2]
       /\ getDateString(InstantOf(agg.input[type][1]))
            = getDateString(InstantOf(agg.input[type][2]))

\* the dataset is one interval record that starts at minute s and lasts d minutes
OnlyRecord(input, r) ==
  /\ IsDurationType(r.type)
  /\ input[r.type] = <<r>>
  /\ \A type \in Kinds \ {r.type} : input[type] = <<>>

CrossesMidnight(r) ==
  LET s == MinuteOfDay(r)
      d == r.durationMinutes
  IN s + d > MINUTES_PER_DAY /\ (s + d) % MINUTES_PER_DAY < s

\* what C13 says of the record r: D = 1, intensity 1 on [s, 1440) and on
\* [0, (s + d) mod 1440), 0 elsewhere, and the two segments in this order
TwoSegments(r) ==
  LET s == MinuteOfDay(r)
      w == (s + r.durationMinutes) % MINUTES_PER_DAY
      one == Frac(1, 1)
  IN /\ agg.out.totalDays = 1
     /\ \A m \in Minutes :
          FracEq(agg.out.heatmaps[r.type].intensities[m],
                 IF m >= s \/ m < w THEN one ELSE Frac(0, 1))
     /\ DOMAIN agg.runs = {r.type}
     /\ Len(agg.runs[r.type]) = 2
     /\ agg.runs[r.type][1].startMinute = 0
     /\ agg.runs[r.type][1].endMinute = w
     /\ FracEq(agg.runs[r.type][1].intensity, one)
     /\ agg.runs[r.type][2].startMinute = s
     /\ agg.runs[r.type][2].endMinute = MINUTES_PER_DAY
     /\ FracEq(agg.runs[r.type][2].intensity, one)

MaxCount == 3

SegDayCounts == {2, 51}

SegCuts == {1, 700, 1439}

\* the number of cut minutes at or before m
PieceOf(cuts, m) == Cardinality({c \in cuts : c <= m})

SegArrays ==
  UNION {
    UNION {
      {[m \in Minutes |-> Frac(counts[PieceOf(cuts, m)], D)] :
         counts \in [0..Cardinality(cuts) -> 0..(IF MaxCount < D THEN MaxCount ELSE D)]} :
      cuts \in SUBSET SegCuts} :
    D \in SegDayCounts}

SegInit ==
  /\ seg \in {[pc |-> "call", intensities |-> a, runs |-> <<>>] : a \in SegArrays}
  /\ state = StateOff /\ ui = StateOff /\ pending = StateOff /\ agg = AggOff
  /\ ingest = StateOff
  /\ draw = StateOff

SegFindIntensityRuns ==
  /\ seg.pc = "call"
  /\ seg' = [seg EXCEPT !.pc = "done",
                        !.runs = findIntensityRuns(seg.intensities, DEFAULT_THRESHOLD)]
  /\ UNCHANGED <<state, ui, pending, agg, ingest, draw>>

SegNext == SegFindIntensityRuns

SpecSeg == SegInit /\ [][SegNext]_vars

(***************************************************************************)
(* Claims about the segmenter (checked under SpecSeg)                      *)
(***************************************************************************)
SegDone == seg.pc = "done"

RunsOver(runs, m) ==
  {j \in 1..Len(runs) : runs[j].startMinute <= m /\ m < runs[j].endMinute}

\* C7: every minute m with intensity[m] > 0 lies in exactly one emitted segment, and
\* that segment's intensity differs from intensity[m] by at most the tolerance.
C7_NonZeroMinutesCovered ==
  SegDone =>
    \A m \in Minutes :
      isPositive(seg.intensities[m]) =>
        /\ Cardinality(RunsOver(seg.runs, m)) = 1
        /\ \A j \in RunsOver(seg.runs, m) :
             FracLE(FracAbsDiff(seg.runs[j].intensity, seg.intensities[m]),
                    DEFAULT_THRESHOLD)

\* C8: no minute whose intensity is exactly 0 lies inside the [startMinute, endMinute)
\* range of an emitted segment.
C8_ZeroMinutesNotDrawn ==
  SegDone =>
    \A m \in Minutes :
      FracEq(seg.intensities[m], Frac(0, 1)) => RunsOver(seg.runs, m) = {}

\* C9: when the last sample intensity[1439] is non-zero, a last segment is emitted and
\* its endMinute is exactly 1440.
C9_LastRunEndsAt1440 ==
  (SegDone /\ isPositive(seg.intensities[MINUTES_PER_DAY - 1])) =>
    /\ Len(seg.runs) > 0
    /\ seg.runs[Len(seg.runs)].endMinute = MINUTES_PER_DAY
    /\ seg.runs[Len(seg.runs)].startMinute <= MINUTES_PER_DAY - 1

\* C10: every list returned by findIntensityRuns is geometrically well formed: each
\* segment has 0 <= startMinute < endMinute <= 1440, and consecutive segments are in
\* increasing order without overlap.
C10_RunsWellFormed ==
  SegDone =>
    /\ \A j \in 1..Len(seg.runs) :
         /\ 0 <= seg.runs[j].startMinute
         /\ seg.runs[j].startMinute < seg.runs[j].endMinute
         /\ seg.runs[j].endMinute <= MINUTES_PER_DAY
    /\ \A j \in 1..(Len(seg.runs) - 1) :
         /\ seg.runs[j].endMinute <= seg.runs[j + 1].startMinute
         /\ seg.runs[j].startMinute < seg.runs[j + 1].startMinute

\* C10 witness: three segments have been returned, the last one for minute 1439 alone
C10_Witness ==
  /\ SegDone
  /\ Len(seg.runs) = 3
  /\ seg.runs[3].startMinute = MINUTES_PER_DAY - 1
  /\ seg.runs[1].endMinute = seg.runs[2].startMinute

\* C11: every segment emitted by findIntensityRuns has an intensity strictly greater
\* than 0; a run whose first-minute value is 0 is closed without being emitted, inside
\* the scan and at the end.
C11_EmittedRunsPositive ==
  SegDone =>
    \A j \in 1..Len(seg.runs) :
      /\ seg.runs[j].intensity.num > 0
      /\ seg.runs[j].intensity.den > 0
      /\ FracEq(seg.runs[j].intensity, seg.intensities[seg.runs[j].startMinute])

\* C11 witness: the array starts with a zero run, ends with a zero run, and a segment
\* was emitted between them
C11_Witness ==
  /\ SegDone
  /\ FracEq(seg.intensities[0], Frac(0, 1))
  /\ FracEq(seg.intensities[MINUTES_PER_DAY - 1], Frac(0, 1))
  /\ Len(seg.runs) = 1
  /\ seg.runs[1].startMinute > 0
  /\ seg.runs[1].endMinute < MINUTES_PER_DAY

\* the minutes where an array changes value, with both ends of the day
ChangePoints(a) ==
  {0, MINUTES_PER_DAY} \cup {m \in 1..(MINUTES_PER_DAY - 1) : ~FracEq(a[m], a[m - 1])}

\* the stretches of constant value between consecutive change points
Stretches(a) ==
  LET points == ChangePoints(a)
  IN {p \in points \X points :
        p[1] < p[2] /\ ~\E c \in points : p[1] < c /\ c < p[2]}

\* a candidate segment [lo, hi) between change points, represented as the code
\* represents a run, by the value at its first minute, with every minute of it within
\* the tolerance of that value
Candidates(a, threshold) ==
  LET points == ChangePoints(a)
  IN {p \in points \X points :
        /\ p[1] < p[2]
        /\ \A c \in points :
             (p[1] <= c /\ c < p[2]) => FracLE(FracAbsDiff(a[c], a[p[1]]), threshold)}

StretchesIn(a, ranges) ==
  {st \in Stretches(a) : \E r \in ranges : r[1] <= st[1] /\ st[2] <= r[2]}

RangesOf(runs) == {<<runs[j].startMinute, runs[j].endMinute>> : j \in 1..Len(runs)}

\* a list of non-overlapping candidate segments that covers the same minutes as runs
CoversSame(a, threshold, S, runs) ==
  /\ \A p \in S, q \in S : p # q => (p[2] <= q[1] \/ q[2] <= p[1])
  /\ StretchesIn(a, S) = StretchesIn(a, RangesOf(runs))

\* C12: the emitted list is minimal: no shorter list of contiguous segments covers the
\* same minutes with every covered minute within the tolerance of its segment's
\* representative intensity.  The lists compared with are only those cut at the array's
\* change points and represented by their first minute's value; a shorter one among
\* them is a shorter one in every wider reading.
C12_RunsMinimal ==
  SegDone =>
    ~\E S \in SUBSET Candidates(seg.intensities, DEFAULT_THRESHOLD) :
       /\ Cardinality(S) < Len(seg.runs)
       /\ CoversSame(seg.intensities, DEFAULT_THRESHOLD, S, seg.runs)


(***************************************************************************)
(* SpecParse: parseFile applied to bounded files: every file name the      *)
(* detection tells apart, over rows with and without a time, and with a    *)
(* missing or non-numeric, zero, negative or positive duration cell.       *)
(***************************************************************************)
MaxRows == 2

FileNames ==
  {{"sleep"}, {"nursing"}, {"pump"}, {"pump", "expressed"}, {"expressed"}, {"diaper"},
   {"sleep", "diaper"}, {"notes"}}

RowTimes == {NULL_DATE, MakeDate(3, 7, 45)}

DurationCells == {<<>>, <<0>>, <<-5>>, <<30>>}

\* the rows of an export of an interval kind, and of an instant kind
DurationRowPool == {[Time |-> t, Duration |-> c] : t \in RowTimes, c \in DurationCells}

InstantRowPool == {[Time |-> t] : t \in RowTimes}

RowPoolOf(name) ==
  IF detectActivityType(name) \in {"bottle", "diaper"} THEN InstantRowPool
  ELSE DurationRowPool

ParseFiles ==
  UNION {{[name |-> name, rows |-> rows] : rows \in ListsOver(RowPoolOf(name), MaxRows)} :
         name \in FileNames}

ParseInit ==
  /\ ingest \in {[pc |-> "call", file |-> f, result |-> NULL] : f \in ParseFiles}
  /\ state = StateOff /\ ui = StateOff /\ pending = StateOff /\ agg = AggOff
  /\ seg = StateOff
  /\ draw = StateOff

ParseFile ==
  /\ ingest.pc = "call"
  /\ ingest' = [ingest EXCEPT !.pc = "done", !.result = parseFile(ingest.file)]
  /\ UNCHANGED <<state, ui, pending, agg, seg, draw>>

ParseNext == ParseFile

SpecParse == ParseInit /\ [][ParseNext]_vars

ParseDone == ingest.pc = "done"

\* the rows the claim lets through: a time, and for an interval kind a duration cell
\* holding a number above 0
GoodRow(type, row) ==
  /\ row.Time # NULL_DATE
  /\ IsDurationType(type) => (row.Duration # <<>> /\ row.Duration[1] > 0)

\* C18: every ingested record of an interval kind has a valid start and an integer
\* durationMinutes > 0, and every record of an instant kind a valid time and no
\* duration; rows with an unparsable time or a missing, non-numeric, zero or negative
\* duration are dropped, and the others are kept in order.
C18_IngestedRecordsValid ==
  (ParseDone /\ ~ingest.result.rejected) =>
    LET type == ingest.result.type
        activities == ingest.result.activities
        good == SelectSeq(ingest.file.rows, LAMBDA row : GoodRow(type, row))
    IN /\ type \in Kinds
       /\ Len(activities) = Len(good)
       /\ \A j \in 1..Len(activities) :
            /\ activities[j].type = type
            /\ IF IsDurationType(type)
               THEN /\ activities[j].start = good[j].Time
                    /\ activities[j].start >= 0
                    /\ activities[j].durationMinutes \in Int
                    /\ activities[j].durationMinutes > 0
                    /\ activities[j].durationMinutes = good[j].Duration[1]
               ELSE /\ activities[j].time = good[j].Time
                    /\ activities[j].time >= 0
                    /\ "durationMinutes" \notin DOMAIN activities[j]

\* C18 witness: an interval export with a row of negative duration and a good row has
\* been parsed, and only the good row was kept
C18_Witness ==
  /\ ParseDone
  /\ ~ingest.result.rejected
  /\ IsDurationType(ingest.result.type)
  /\ Len(ingest.file.rows) = 2
  /\ ingest.file.rows[1].Time # NULL_DATE
  /\ ingest.file.rows[1].Duration = <<-5>>
  /\ Len(ingest.result.activities) = 1

(***************************************************************************)
(* SpecDate: parseDateTime on the date strings its pattern matches, drawn  *)
(* from a few digit runs for each group.                                   *)
(***************************************************************************)
YearDigits ==
  {<<0, 0>>, <<0, 7>>, <<2, 4>>, <<4, 9>>, <<5, 0>>, <<7, 5>>, <<9, 9>>, <<0, 9, 9>>,
   <<1, 2, 3>>, <<1, 9, 9, 9>>, <<2, 0, 2, 4>>}

DateMatches ==
  [month : {<<0>>, <<3>>, <<1, 2>>, <<1, 3>>}, day : {<<0>>, <<1, 4>>, <<3, 1>>, <<3, 2>>},
   year : YearDigits, hours : {<<0>>, <<2, 3>>, <<2, 4>>}, minutes : {<<3, 0>>, <<6, 0>>}]

DateInit ==
  /\ ingest \in {[pc |-> "match", match |-> t, result |-> NULL] : t \in DateMatches}
  /\ state = StateOff /\ ui = StateOff /\ pending = StateOff /\ agg = AggOff
  /\ seg = StateOff /\ draw = StateOff

ParseDate ==
  /\ ingest.pc = "match"
  /\ ingest' = [ingest EXCEPT !.pc = "parsed", !.result = parseDateTime(ingest.match)]
  /\ UNCHANGED <<state, ui, pending, agg, seg, draw>>

DateNext == ParseDate

SpecDate == DateInit /\ [][DateNext]_vars

DateParsed == ingest.pc = "parsed"

\* C30: parseDateTime interprets every two-digit year yy in 00..99 as the year
\* 2000 + yy, so every date in the accepted M/D/YY format falls in 2000..2099.
C30_TwoDigitYearsAre20xx ==
  (DateParsed /\ Len(ingest.match.year) = 2 /\ ~(ingest.result = NULL)) =>
    /\ ingest.result.year = 2000 + parseDigits(ingest.match.year)
    /\ ingest.result.year \in 2000..2099

(***************************************************************************)
(* SpecDraw: the body of render's loop over the runs, on one run whose     *)
(* bounds are drawn from minutes around the hour boundaries.               *)
(***************************************************************************)
DrawMinutes == {0, 1, 59, 60, 61, 119, 120, 121, 700, 720, 1380, 1381, 1439, 1440}

DrawRuns ==
  {run(bounds[1], bounds[2], Frac(1, 2)) :
     bounds \in {b \in DrawMinutes \X DrawMinutes : b[1] < b[2]}}

DrawInit ==
  /\ draw \in {[pc |-> "call", run |-> r, rects |-> <<>>] : r \in DrawRuns}
  /\ state = StateOff /\ ui = StateOff /\ pending = StateOff /\ agg = AggOff
  /\ seg = StateOff /\ ingest = StateOff

DrawBars ==
  /\ draw.pc = "call"
  /\ draw' = [draw EXCEPT !.pc = "done", !.rects = barsOf(draw.run)]
  /\ UNCHANGED <<state, ui, pending, agg, seg, ingest>>

DrawNext == DrawBars

SpecDraw == DrawInit /\ [][DrawNext]_vars

DrawDone == draw.pc = "done"

\* the minute in the hour at which a rect starts, and the minutes it is wide, read
\* back from its pixels
MinutesOf(length) == (length.num * 60) \div (length.den * chartWidth)

\* the length is a whole number of minutes
WholeMinutes(length) == FracEq(pixels(MinutesOf(length)), length)

\* the minutes of the day a rect covers
Covered(r) ==
  {r.hour * 60 + m : m \in MinutesOf(r.x)..(MinutesOf(r.x) + MinutesOf(r.width) - 1)}

RECURSIVE SumWidths(_)
SumWidths(rects) ==
  IF Len(rects) = 0 THEN 0 ELSE MinutesOf(Head(rects).width) + SumWidths(Tail(rects))

\* C29: rendering partitions each run exactly: for every segment (startMinute,
\* endMinute) with 0 <= startMinute < endMinute <= 1440, the rectangles drawn by
\* render each lie inside a single hour row (minute-in-hour range within 0..60), cover
\* pairwise disjoint minute ranges, and together cover exactly the minutes
\* [startMinute, endMinute), so their widths sum to endMinute - startMinute minutes.
C29_BarsPartitionRun ==
  DrawDone =>
    LET rects == draw.rects
        s == draw.run.startMinute
        e == draw.run.endMinute
    IN /\ \A k \in 1..Len(rects) :
            /\ rects[k].hour \in 0..23
            /\ WholeMinutes(rects[k].x) /\ WholeMinutes(rects[k].width)
            /\ 0 <= MinutesOf(rects[k].x)
            /\ MinutesOf(rects[k].width) >= 1
            /\ MinutesOf(rects[k].x) + MinutesOf(rects[k].width) <= 60
       /\ \A k, n \in 1..Len(rects) : k # n => Covered(rects[k]) \cap Covered(rects[n]) = {}
       /\ UNION {Covered(rects[k]) : k \in 1..Len(rects)} = s..(e - 1)
       /\ SumWidths(rects) = e - s

\* a run from the last minute of one hour to the first minute of the hour after the
\* next has been drawn as three rects
C29_Witness ==
  /\ DrawDone
  /\ draw.run.startMinute = 59
  /\ draw.run.endMinute = 121
  /\ Len(draw.rects) = 3
  /\ MinutesOf(draw.rects[2].width) = 60

(***************************************************************************)
(* Spec: the page.  Uploads and example loads start and finish later, in   *)
(* any order; the date inputs, the toggles, the reset and clear buttons    *)
(* and the minute timer fire between them.  The date inputs and the        *)
(* toggles are in the sections showSections hides, so they act once the    *)
(* sections show.                                                          *)
(***************************************************************************)
MaxUploads == 1

SleepFile ==
  [name |-> {"sleep"},
   rows |-> <<[Time |-> MakeDate(10, 23, 0), Duration |-> <<120>>],
              [Time |-> NULL_DATE, Duration |-> <<30>>],
              [Time |-> MakeDate(11, 9, 0), Duration |-> <<0>>],
              [Time |-> MakeDate(11, 9, 30), Duration |-> <<>>],
              [Time |-> MakeDate(11, 8, 20), Duration |-> <<60>>]>>]

BottleFile ==
  [name |-> {"expressed"},
   rows |-> <<[Time |-> MakeDate(11, 0, 3)], [Time |-> NULL_DATE]>>]

NotesFile == [name |-> {"notes"}, rows |-> <<>>]

\* a sleep export none of whose rows parses
UnreadableSleepFile ==
  [name |-> {"sleep"}, rows |-> <<[Time |-> NULL_DATE, Duration |-> <<45>>]>>]

\* an archive of the export: a sleep CSV with readable rows, and a text file
ExportZip ==
  [name |-> {"zip"},
   entries |-> <<[name |-> {"sleep", "csv"},
                  rows |-> <<[Time |-> MakeDate(12, 14, 0), Duration |-> <<45>>]>>],
                 [name |-> {"readme"}, rows |-> <<>>]>>]

Uploads ==
  {<<SleepFile, BottleFile>>, <<UnreadableSleepFile, ExportZip>>, <<BottleFile, NotesFile>>}

\* the clock readings of new Date(): within the data's days, 30 days after them, and
\* later
Nows == {MakeDate(11, 12, 0) + 30, MakeDate(41, 1, 0) + 30, MakeDate(50, 12, 0) + 30}

\* what the user can enter in a date input: '' or a date
DateValues == {NULL_DATE, 10, 12}

ToggleKinds == {"sleep"}

World == [state |-> state, ui |-> ui]

\* the handler calls that await: the file lists of the handleFileUpload calls, the
\* number of handleLoadExample calls, each awaiting its fetches, and, as history, for
\* each awaiting handleFileUpload call whether handleClear has run since it started
NoPending == [started |-> 0, files |-> <<>>, cleared |-> <<>>, examples |-> 0]

\* the URLs of the fetches that have been issued and have not settled
RequestsInFlight == IF pending.examples > 0 THEN ExampleUrls ELSE {}

Init ==
  /\ state = StateInit
  /\ ui = UiInit
  /\ pending = NoPending
  /\ agg = AggOff
  /\ seg = StateOff
  /\ ingest = StateOff
  /\ draw = StateOff

RemoveAt(s, j) == SubSeq(s, 1, j - 1) \o SubSeq(s, j + 1, Len(s))

\* the user picks one of the uploads in the file input, whose change event runs
\* handleFileUpload up to its first await
StartUpload(uploads, max) ==
  \E files \in uploads :
    /\ pending.started < max
    /\ ui' = [ui EXCEPT !.loading = TRUE, !.fileInput = TRUE]
    /\ pending' = [pending EXCEPT !.started = @ + 1, !.files = Append(@, files),
                                  !.cleared = Append(@, FALSE)]
    /\ UNCHANGED <<state, agg, seg, ingest, draw>>

\* handleFileUpload from the resolution of its promises, the clock reading one of nows
\* (w: the world the handler leaves, computed once)
FinishUpload(nows) ==
  \E j \in 1..Len(pending.files), today \in nows :
    \E w \in {finishFileUpload(World, pending.files[j], today)} :
      /\ state' = w.state
      /\ ui' = w.ui
      /\ pending' = [pending EXCEPT !.files = RemoveAt(@, j),
                                    !.cleared = RemoveAt(@, j)]
      /\ UNCHANGED <<agg, seg, ingest, draw>>

\* handleLoadExample up to its first await, the fetch of every example file: the button
\* is disabled while the sections show
StartExample(max) ==
  /\ ~ui.sections
  /\ pending.started < max
  /\ ui' = [ui EXCEPT !.loading = TRUE]
  /\ pending' = [pending EXCEPT !.started = @ + 1, !.examples = @ + 1]
  /\ UNCHANGED <<state, agg, seg, ingest, draw>>

\* the user edits one date input to one of values, whose change event runs
\* handleDateFilterChange
ChangeDate(values) ==
  \E input \in {"dateStart", "dateEnd"}, value \in values :
    /\ ui.sections
    /\ ui[input] # value
    /\ \E w \in {handleDateFilterChange([World EXCEPT !.ui[input] = value])} :
         /\ state' = w.state
         /\ ui' = w.ui
    /\ UNCHANGED <<pending, agg, seg, ingest, draw>>

\* the click on the reset button, the clock reading one of nows
Reset(nows) ==
  \E today \in nows :
    /\ ui.sections
    /\ \E w \in {handleResetDates(World, today)} :
         /\ state' = w.state
         /\ ui' = w.ui
    /\ UNCHANGED <<pending, agg, seg, ingest, draw>>

FileUploadStart == StartUpload(Uploads, MaxUploads)

FileUploadFinish == FinishUpload(Nows)

LoadExampleStart == StartExample(MaxUploads)

\* handleLoadExample from the settling of its fetches
LoadExampleFinish ==
  \E fetched \in BOOLEAN :
    /\ pending.examples > 0
    /\ \E w \in {finishLoadExample(World, fetched)} :
         /\ state' = w.state
         /\ ui' = w.ui
    /\ pending' = [pending EXCEPT !.examples = @ - 1]
    /\ UNCHANGED <<agg, seg, ingest, draw>>

\* the click on the clear button, which updateDataSummary disables whenever the
\* summary it writes shows no data
Clear ==
  /\ ui.dataSummary = "has-data"
  /\ \E w \in {handleClear(World)} :
       /\ state' = w.state
       /\ ui' = w.ui
  /\ pending' = [pending EXCEPT !.cleared = [j \in 1..Len(pending.files) |-> TRUE]]
  /\ UNCHANGED <<agg, seg, ingest, draw>>

ToggleChange ==
  \E activityType \in ToggleKinds, checked \in BOOLEAN :
    /\ ui.sections
    /\ state.visibility[activityType] # checked
    /\ \E w \in {handleToggleChange(World, activityType, checked)} :
         /\ state' = w.state
         /\ ui' = w.ui
    /\ UNCHANGED <<pending, agg, seg, ingest, draw>>

DateFilterChange == ChangeDate(DateValues)

ResetDates == Reset(Nows)

\* the setInterval callback
Tick ==
  \E w \in {updateCurrentTimeIndicator(World)} :
    /\ state' = w.state
    /\ ui' = w.ui
    /\ UNCHANGED <<pending, agg, seg, ingest, draw>>

Next ==
  \/ FileUploadStart
  \/ FileUploadFinish
  \/ LoadExampleStart
  \/ LoadExampleFinish
  \/ Clear
  \/ ToggleChange
  \/ DateFilterChange
  \/ ResetDates
  \/ Tick

Spec == Init /\ [][Next]_vars

(***************************************************************************)
(* SpecOverlap: the page with the same handlers and one export, one clock  *)
(* reading and one date to type, so that handler calls that overlap, an    *)
(* upload started while another awaits or while data is shown, are within  *)
(* reach.                                                                   *)
(***************************************************************************)
MaxOverlap == 2

OverlapUploads == {<<SleepFile, BottleFile>>}

OverlapNows == {MakeDate(11, 12, 0) + 30}

OverlapDates == {NULL_DATE, 10}

OverlapUploadStart == StartUpload(OverlapUploads, MaxOverlap)

OverlapUploadFinish == FinishUpload(OverlapNows)

OverlapExampleStart == StartExample(MaxOverlap)

OverlapDateChange == ChangeDate(OverlapDates)

OverlapReset == Reset(OverlapNows)

OverlapNext ==
  \/ OverlapUploadStart
  \/ OverlapUploadFinish
  \/ OverlapExampleStart
  \/ LoadExampleFinish
  \/ Clear
  \/ ToggleChange
  \/ OverlapDateChange
  \/ OverlapReset
  \/ Tick

SpecOverlap == Init /\ [][OverlapNext]_vars

(***************************************************************************)
(* Pipeline claims                                                         *)
(***************************************************************************)
AllEmpty(activities) == \A type \in Kinds : Len(activities[type]) = 0

\* a heatmap has been calculated from a filtered dataset without any record
EmptyPipeline ==
  /\ ~(state.heatmapData = NULL)
  /\ AllEmpty(getFilteredActivities(state))

StampOf(type, activity) == IF IsDurationType(type) THEN activity.start ELSE activity.time

\* start <= t <= end, a missing bound leaving its side unconstrained
InWindow(t, start, end) ==
  /\ start = NULL_DATE \/ start <= t
  /\ end = NULL_DATE \/ t <= end

\* C14: getFilteredActivities returns, for each of the five kinds, exactly the records
\* of state.activities whose start (interval kinds) or time (instant kinds) t
\* satisfies start <= t <= end, a missing bound leaving that side unconstrained; the
\* result for every kind is a list, possibly empty and never null, in the original
\* order.
C14_FilterContract ==
  LET filtered == getFilteredActivities(state)
  IN /\ DOMAIN filtered = Kinds
     /\ \A type \in Kinds :
          /\ DOMAIN filtered[type] = 1..Len(filtered[type])
          /\ filtered[type] =
               SelectSeq(state.activities[type],
                         LAMBDA activity :
                           InWindow(StampOf(type, activity), state.dateFilter.start,
                                    state.dateFilter.end))

\* exactly one bound is set, a kind keeps some of its records and loses others, and
\* another kind keeps none
C14_Witness ==
  /\ (state.dateFilter.start = NULL_DATE) # (state.dateFilter.end = NULL_DATE)
  /\ \E type \in Kinds :
       /\ Len(getFilteredActivities(state)[type]) > 0
       /\ Len(getFilteredActivities(state)[type]) < Len(state.activities[type])
  /\ \E type \in Kinds :
       /\ Len(state.activities[type]) > 0
       /\ getFilteredActivities(state)[type] = <<>>

\* a bound of the date filter is set
FilterInForce == state.dateFilter.start # NULL_DATE \/ state.dateFilter.end # NULL_DATE

\* the calendar date of t lies between the calendar dates of the bounds that are set
OnFilterDates(t) ==
  /\ \/ state.dateFilter.start = NULL_DATE
     \/ getDateString(state.dateFilter.start) <= getDateString(t)
  /\ \/ state.dateFilter.end = NULL_DATE
     \/ getDateString(t) <= getDateString(state.dateFilter.end)

\* C15: the date filter is a window of whole calendar dates, inclusive at both ends:
\* whenever a filter is in force, every record whose calendar date lies between the
\* filter's start date and end date passes the filter and its date is one of the days
\* counted in D, whatever its time of day.
C15_WholeDateWindow ==
  FilterInForce /\ ~(state.heatmapData = NULL) =>
    \A type \in Kinds :
      \A j \in 1..Len(state.activities[type]) :
        LET t == StampOf(type, state.activities[type][j])
        IN OnFilterDates(t) =>
             /\ passesFilter(t, state.dateFilter.start, state.dateFilter.end)
             /\ getDateString(t) \in state.heatmapData.allUniqueDays

\* a step of handleFileUpload that merges parsed records and runs initializeDateFilter
\* on a dataset that holds a record
RangeInitialised ==
  /\ Len(pending'.files) < Len(pending.files)
  /\ ui'.alerted = NO_ALERT
  /\ getAllActivityDates(state') # {}

Later(a, b) == IF a > b THEN a ELSE b

Earlier(a, b) == IF a < b THEN a ELSE b

\* C16: when the range is initialised after loading data, the filter start is the
\* later of (latest date in the data minus 30 days) and the earliest date in the data,
\* and the filter end is the earlier of today and the latest date in the data (the
\* start compared by calendar date, today being one of the clock readings).
C16_DefaultWindowPolicy ==
  [][RangeInitialised =>
       LET allDates == getAllActivityDates(state')
           minDate == SetMin(allDates)
           maxDate == SetMax(allDates)
       IN /\ getDateString(state'.dateFilter.start) =
               getDateString(Later(maxDate - DEFAULT_WINDOW_DAYS * SECONDS_PER_DAY,
                                   minDate))
          /\ \E today \in Nows : state'.dateFilter.end = Earlier(today, maxDate)]_vars

\* C17: whenever at least one record is loaded, the window set by initializeDateFilter
\* is non-empty: filter start <= filter end, at least one loaded record passes
\* getFilteredActivities, and D >= 1, for every position of today relative to the data.
C17_DefaultWindowNonEmpty ==
  [][RangeInitialised =>
       /\ state'.dateFilter.start <= state'.dateFilter.end
       /\ \E type \in Kinds : Len(getFilteredActivities(state')[type]) > 0
       /\ ~(state'.heatmapData = NULL)
       /\ state'.heatmapData.totalDays >= 1]_vars

(***************************************************************************)
(* Privacy claims                                                          *)
(***************************************************************************)
\* C20: the page makes no network calls: in no reachable state, after any sequence of
\* user events (file upload, load example, clear, date change, reset, toggle, timer
\* tick), has the application issued a network request.
C20_NoNetworkCalls == RequestsInFlight = {}

HasRejectedFile(files) ==
  \E k \in 1..Len(files) :
    ~isZip(files[k]) /\ detectActivityType(files[k].name) = NO_TYPE

\* C22: upload is all-or-nothing on a CSV parse failure: if any non-zip file of one
\* upload is rejected by the parser, then on the step that finishes that upload no
\* record of any of its files is added, state.activities, state.loadedFiles,
\* state.heatmapData and state.dateFilter are left exactly as the step found them, the
\* loading indicator is hidden and the file input is cleared.
C22_UploadAllOrNothing ==
  [][\A j \in 1..Len(pending.files) :
       pending'.files = RemoveAt(pending.files, j) /\ HasRejectedFile(pending.files[j]) =>
         /\ state' = state
         /\ ~ui'.loading
         /\ ~ui'.fileInput]_vars

\* an upload of a readable bottle export and a file of unknown type has finished with
\* its alert
C22_Witness ==
  /\ pending.started > 0
  /\ pending.files = <<>>
  /\ ui.alerted = "Error loading files"
  /\ ~ui.loading

\* the step finishes the awaiting handleFileUpload call j, started before the last run
\* of handleClear
StaleUploadFinishes(j) ==
  /\ pending.cleared[j]
  /\ pending'.files = RemoveAt(pending.files, j)
  /\ pending'.cleared = RemoveAt(pending.cleared, j)

\* C23: clear is final with respect to earlier work: an upload that was already
\* awaiting its parsing when handleClear ran adds nothing when it completes, so the
\* lists of state.activities and state.heatmapData stay as the clear left them until an
\* upload started after the clear completes.
C23_ClearIsFinal ==
  [][\A j \in 1..Len(pending.files) :
       StaleUploadFinishes(j) =>
         /\ state'.activities = state.activities
         /\ state'.heatmapData = state.heatmapData]_vars

\* the uploads and example loads that have started and not finished
InProgress == Len(pending.files) + pending.examples

\* C24: the loading indicator is visible whenever at least one upload or example load
\* is still in progress, including when two such operations overlap, and it is hidden
\* once none is in progress.
C24_LoadingWhileInProgress == ui.loading <=> InProgress > 0

IngestibleTexts(files) ==
  LET extractedCsvs == extractCsvsFromZips(SelectSeq(files, isZip))
  IN {extractedCsvs[k] : k \in {n \in 1..Len(extractedCsvs) :
                                  /\ detectActivityType(extractedCsvs[n].name) # NO_TYPE
                                  /\ parseFile(extractedCsvs[n]).parsedCount > 0}}

\* C26: every CSV text extracted from an uploaded ZIP archive, with a recognised
\* filename and at least one valid row, ends up as records appended to
\* state.activities of the detected kind with an entry in loadedFiles, and the handler
\* finishes with heatmapData recomputed.
C26_TextsIngested ==
  [][\A j \in 1..Len(pending.files) :
       pending'.files = RemoveAt(pending.files, j) /\ ~HasRejectedFile(pending.files[j]) =>
         \A entry \in IngestibleTexts(pending.files[j]) :
           LET result == parseFile(entry)
           IN /\ Len(state'.activities[result.type]) >=
                   Len(state.activities[result.type]) + Len(result.activities)
              /\ \E k \in 1..Len(state'.loadedFiles) :
                   state'.loadedFiles[k].name = entry.name
              /\ ~(state'.heatmapData = NULL)]_vars

\* the step is a click on the reset button with the clock reading today
ResetStep(today) ==
  /\ ui.sections
  /\ pending' = pending
  /\ \E w \in {handleResetDates(World, today)} :
       /\ state' = w.state
       /\ ui' = w.ui

\* C27: handleResetDates resets the date filter to the default window: after it runs,
\* state.dateFilter equals the window that initializeDateFilter computes for the
\* currently loaded data and the current day (start clamped to the earliest record,
\* end clamped to the latest record), whenever a record is loaded.
C27_ResetGivesDefaultWindow ==
  [][\A today \in Nows :
       ResetStep(today) /\ getAllActivityDates(state) # {} =>
         state'.dateFilter = initializeDateFilter(World, today).state.dateFilter]_vars

====
